---------------------------- MODULE Spec2Model ----------------------------
(***************************************************************************)
(* A model of sort_media.py: the command line parsing of the entry point,  *)
(* the recursive walk of process_dir over a source tree, the metadata      *)
(* timestamp resolver and the destination path resolver.                   *)
(*                                                                         *)
(* Strings are sequences of one-character strings, so that lower(),        *)
(* startswith(), slicing, splitext(), strftime() and strptime() are        *)
(* computed character by character.  Date and time values are records      *)
(* [year, month, day, hour, minute, second]; arithmetic on them goes       *)
(* through the proleptic Gregorian ordinal as datetime does.  The local    *)
(* time zone is taken to be UTC.  Output streams (info, warn, err, dbg)    *)
(* are not part of the state.                                              *)
(***************************************************************************)
EXTENDS Integers, Sequences, FiniteSets, TLC

VARIABLES
    pc,                  \* position of the entry point / kind of run
    opts,                \* options returned by getopt (the command line)
    args,                \* positional arguments returned by getopt
    oi,                  \* index of the next option in "for o, v in opts"
    action,              \* global action: ACTION_COPY or ACTION_MOVE
    dry_run,             \* global dry_run
    remove_cleared_dirs, \* global remove_cleared_dirs
    files_mode,          \* global files_mode
    time_shift,          \* global time_shift dictionary
    src,                 \* source tree: set of directory entries
    src0,                \* source tree when the run started
    dst_dirs,            \* directories below the destination root
    dst_files,           \* files below the destination root
    stack,               \* activation records of process_dir
    faults,              \* number of failed system calls so far
    trace,               \* what the run did: [op, path] records
    p_in,                \* inputs of get_dst_media_path (pure-function runs)
    p_out,               \* results of get_dst_media_path, newest last
    m_in,                \* input of get_media_file_date_time
    m_out                \* result of get_media_file_date_time

vars == <<pc, opts, args, oi, action, dry_run, remove_cleared_dirs, files_mode,
          time_shift, src, src0, dst_dirs, dst_files, stack, faults, trace,
          p_in, p_out, m_in, m_out>>

cfgVars == <<action, dry_run, remove_cleared_dirs, files_mode, time_shift>>
fsVars == <<src, dst_dirs, dst_files, stack, faults, trace>>
pureVars == <<p_in, p_out, m_in, m_out>>

-----------------------------------------------------------------------------
(* Strings *)

\* None is the empty tuple and a value x that is present is <<x>>
None == <<>>
Some(x) == <<x>>
TheValue(o) == o[1]

Digits == <<"0", "1", "2", "3", "4", "5", "6", "7", "8", "9">>
UpperCase == <<"A", "B", "C", "D", "E", "F", "G", "H", "I", "J", "K", "L", "M",
               "N", "O", "P", "Q", "R", "S", "T", "U", "V", "W", "X", "Y", "Z">>
LowerCase == <<"a", "b", "c", "d", "e", "f", "g", "h", "i", "j", "k", "l", "m",
               "n", "o", "p", "q", "r", "s", "t", "u", "v", "w", "x", "y", "z">>
\* the characters of the model in ASCII order
Ascii == <<"\n", " ", "-", ".">> \o Digits \o <<":">> \o UpperCase \o <<"_">> \o LowerCase

Range(s) == {s[i] : i \in DOMAIN s}
IsDigit(c) == c \in Range(Digits)
DigitVal(c) == (CHOOSE i \in DOMAIN Digits : Digits[i] = c) - 1
Ord(c) == CHOOSE i \in DOMAIN Ascii : Ascii[i] = c

\* str.lower()
LowerChar(c) ==
    IF c \in Range(UpperCase)
    THEN LowerCase[CHOOSE i \in DOMAIN UpperCase : UpperCase[i] = c]
    ELSE c
Lower(s) == [i \in DOMAIN s |-> LowerChar(s[i])]

\* str.startswith()
StartsWith(s, p) == Len(s) >= Len(p) /\ SubSeq(s, 1, Len(p)) = p

\* s[n:]
Drop(s, n) == SubSeq(s, n + 1, Len(s))

\* the order of str under sort(): lexicographic by character code
RECURSIVE StrLess(_, _)
StrLess(a, b) ==
    IF b = <<>> THEN FALSE
    ELSE IF a = <<>> THEN TRUE
    ELSE IF a[1] # b[1] THEN Ord(a[1]) < Ord(b[1])
    ELSE StrLess(Tail(a), Tail(b))

\* list.sort() of a list of distinct strings
RECURSIVE Sorted(_)
Sorted(S) ==
    IF S = {} THEN <<>>
    ELSE LET m == CHOOSE x \in S : \A y \in S \ {x} : StrLess(x, y)
         IN <<m>> \o Sorted(S \ {m})

\* decimal formatting with zero padding, as %H, %M, %S, %m, %d and %Y do
Pad2(n) == <<Digits[((n \div 10) % 10) + 1], Digits[(n % 10) + 1]>>
Pad4(n) == Pad2(n \div 100) \o Pad2(n % 100)

\* the value of a string of decimal digits
RECURSIVE Num(_)
Num(s) == IF s = <<>> THEN 0 ELSE (10 * Num(SubSeq(s, 1, Len(s) - 1))) + DigitVal(s[Len(s)])

AllDigits(s) == s # <<>> /\ \A i \in DOMAIN s : IsDigit(s[i])

-----------------------------------------------------------------------------
(* Dates and times: datetime.datetime, datetime.timedelta, time.mktime *)

IsLeap(y) == (y % 4 = 0 /\ y % 100 # 0) \/ y % 400 = 0
DaysInMonth(y, m) ==
    IF m = 2 THEN (IF IsLeap(y) THEN 29 ELSE 28)
    ELSE IF m \in {4, 6, 9, 11} THEN 30 ELSE 31
DaysBeforeYear(y) ==
    ((y - 1) * 365) + ((y - 1) \div 4) - ((y - 1) \div 100) + ((y - 1) \div 400)
RECURSIVE DaysBeforeMonth(_, _)
DaysBeforeMonth(y, m) ==
    IF m = 1 THEN 0 ELSE DaysBeforeMonth(y, m - 1) + DaysInMonth(y, m - 1)

ToOrdinal(dt) == DaysBeforeYear(dt.year) + DaysBeforeMonth(dt.year, dt.month) + dt.day
SecondOfDay(dt) == (dt.hour * 3600) + (dt.minute * 60) + dt.second
\* a point in time as datetime keeps it: the ordinal of the day and the second
\* of the day
ToDaySec(dt) == [days |-> ToOrdinal(dt), secs |-> SecondOfDay(dt)]
FromDaySec(ds) ==
    LET ord == ds.days
        sod == ds.secs
        y == CHOOSE yy \in (ord \div 366)..((ord \div 365) + 1) :
                 DaysBeforeYear(yy) < ord /\ ord <= DaysBeforeYear(yy + 1)
        doy == ord - DaysBeforeYear(y)
        m == CHOOSE mm \in 1..12 :
                 DaysBeforeMonth(y, mm) < doy /\ doy <= DaysBeforeMonth(y, mm) + DaysInMonth(y, mm)
    IN [year |-> y, month |-> m, day |-> doy - DaysBeforeMonth(y, m),
        hour |-> sod \div 3600, minute |-> (sod % 3600) \div 60, second |-> sod % 60]

\* days and seconds carried so that 0 <= secs < 86400
Normalize(days, secs) == [days |-> days + (secs \div 86400), secs |-> secs % 86400]

\* datetime.timedelta(**time_shift), normalized to days and seconds
TimeDelta(ts) ==
    Normalize(ts.days, (ts.hours * 3600) + (ts.minutes * 60) + ts.seconds)

\* time.mktime(time_struct) and datetime.datetime.fromtimestamp(), local zone
\* UTC; the timestamp is kept as whole days since the epoch and seconds
EpochOrdinal == ToOrdinal([year |-> 1970, month |-> 1, day |-> 1])
MkTime(st) == Normalize(ToOrdinal(st) - EpochOrdinal, SecondOfDay(st))
FromTimestamp(t) == FromDaySec([days |-> t.days + EpochOrdinal, secs |-> t.secs])

\* orig_datetime + timedelta
AddDelta(dt, ts) ==
    FromDaySec(Normalize(ToOrdinal(dt) + TimeDelta(ts).days,
                         SecondOfDay(dt) + TimeDelta(ts).secs))

\* strftime
FmtHM_(dt) == Pad2(dt.hour) \o <<":">> \o Pad2(dt.minute) \o <<"_">>
FmtHMS_(dt) == Pad2(dt.hour) \o <<":">> \o Pad2(dt.minute) \o <<":">> \o Pad2(dt.second) \o <<"_">>
FmtY(dt) == Pad4(dt.year)
FmtYMD(dt) == Pad4(dt.year) \o <<"-">> \o Pad2(dt.month) \o <<"-">> \o Pad2(dt.day)

\* time.strptime(text, "%Y?%m?%d?%H?%M?%S") with the five separators seps,
\* for texts whose fields are written with all their digits: Some(struct),
\* or None when strptime raises ValueError
StrPTime(text, seps) ==
    LET fieldAt == <<1, 6, 9, 12, 15, 18>>
        fieldLen == <<4, 2, 2, 2, 2, 2>>
        sepAt == <<5, 8, 11, 14, 17>>
        F(k) == SubSeq(text, fieldAt[k], fieldAt[k] + fieldLen[k] - 1)
    IN IF Len(text) # 19 THEN None
       ELSE IF \E k \in 1..5 : text[sepAt[k]] # seps[k] THEN None
       ELSE IF \E k \in 1..6 : ~AllDigits(F(k)) THEN None
       ELSE LET st == [year |-> Num(F(1)), month |-> Num(F(2)), day |-> Num(F(3)),
                       hour |-> Num(F(4)), minute |-> Num(F(5)), second |-> Num(F(6))]
            IN IF /\ st.year >= 1
                  /\ st.month \in 1..12
                  /\ st.day >= 1 /\ st.day <= DaysInMonth(st.year, st.month)
                  /\ st.hour <= 23 /\ st.minute <= 59 /\ st.second <= 61
                       THEN Some(st) ELSE None

ExifSeps == <<":", ":", " ", ":", ":">>
VideoSeps == <<" ", " ", " ", " ", " ">>

\* the text a datetime is written as in an EXIF tag
FmtExif(dt) ==
    Pad4(dt.year) \o <<":">> \o Pad2(dt.month) \o <<":">> \o Pad2(dt.day) \o <<" ">> \o
    Pad2(dt.hour) \o <<":">> \o Pad2(dt.minute) \o <<":">> \o Pad2(dt.second)

-----------------------------------------------------------------------------
(* get_dst_media_path *)

\* DstFileName without the startswith guard of the time prefix
DstFileName_AlwaysPrefix(src_filename, orig_datetime, shifted_datetime) ==
    LET lowered == Lower(src_filename)
        stripped == IF StartsWith(lowered, FmtHM_(orig_datetime))
                    THEN Drop(lowered, 6) ELSE lowered
    IN FmtHMS_(shifted_datetime) \o stripped

\* DstFileName with the legacy strip decided by the shifted timestamp
DstFileName_StripByShifted(src_filename, orig_datetime, shifted_datetime) ==
    LET lowered == Lower(src_filename)
        stripped == IF StartsWith(lowered, FmtHM_(shifted_datetime))
                    THEN Drop(lowered, 6) ELSE lowered
        filename_prefix == FmtHMS_(shifted_datetime)
    IN IF ~StartsWith(stripped, filename_prefix)
       THEN filename_prefix \o stripped ELSE stripped

\* the file name component: lower-case, legacy prefix strip, time prefix
DstFileName(src_filename, orig_datetime, shifted_datetime) ==
    LET lowered == Lower(src_filename)
        stripped == IF StartsWith(lowered, FmtHM_(orig_datetime))
                    THEN Drop(lowered, 6) ELSE lowered
        filename_prefix == FmtHMS_(shifted_datetime)
    IN IF ~StartsWith(stripped, filename_prefix)
       THEN filename_prefix \o stripped ELSE stripped

\* the path below rootdir_path, as its three components
get_dst_media_path(src_filename, orig_datetime, shifted_datetime) ==
    <<FmtY(shifted_datetime), FmtYMD(shifted_datetime),
      DstFileName(src_filename, orig_datetime, shifted_datetime)>>


-----------------------------------------------------------------------------
(* is_media and the extension tables *)

Str_jpeg == <<"j", "p", "e", "g">>
Str_jpg == <<"j", "p", "g">>
Str_png == <<"p", "n", "g">>
Str_tif == <<"t", "i", "f">>
Str_tiff == <<"t", "i", "f", "f">>
Str_avi == <<"a", "v", "i">>
Str_mpg == <<"m", "p", "g">>
Str_mp4 == <<"m", "p", "4">>
Str_3gp == <<"3", "g", "p">>
Str_mov == <<"m", "o", "v">>
Str_m4v == <<"m", "4", "v">>

SUPPORTED_VIDEO_EXTENSIONS == {Str_avi, Str_mpg, Str_mp4, Str_3gp, Str_mov, Str_m4v}
SUPPORTED_IMAGE_EXTENSIONS == {Str_jpeg, Str_jpg, Str_png, Str_tif, Str_tiff}
SUPPORTED_EXTENSIONS == SUPPORTED_VIDEO_EXTENSIONS \cup SUPPORTED_IMAGE_EXTENSIONS

\* os.path.splitext(name)[1]: from the last dot on, unless only dots precede it
SplitExt(name) ==
    LET dots == {i \in DOMAIN name : name[i] = "."}
    IN IF dots = {} THEN <<>>
       ELSE LET dotIndex == CHOOSE i \in dots : \A j \in dots : j <= i
            IN IF \E k \in 1..(dotIndex - 1) : name[k] # "."
               THEN SubSeq(name, dotIndex, Len(name)) ELSE <<>>

\* str.lstrip('.')
RECURSIVE LStripDots(_)
LStripDots(s) == IF s # <<>> /\ s[1] = "." THEN LStripDots(Tail(s)) ELSE s

\* os.path.splitext(path)[1].lstrip('.').lower()
Ext(name) == Lower(LStripDots(SplitExt(name)))

\* is_media, for an entry of the source directory
is_media(e) == Ext(e.name) \in SUPPORTED_EXTENSIONS /\ e.type = "file"

-----------------------------------------------------------------------------
(* get_media_file_date_time *)

TagOrder == <<"Image DateTime", "EXIF DateTimeOriginal", "EXIF DateTimeDigitized">>
ExifKeys == Range(TagOrder) \cup {"Image Make"}

\* "not exif_data": the dictionary has no key at all
ExifEmpty(exif) == \A k \in ExifKeys : exif[k] = None

\* the try/except of one candidate tag: a KeyError and a ValueError both pass
TryTag(exif, k) ==
    IF exif[k] = None THEN None ELSE StrPTime(TheValue(exif[k]), ExifSeps)

\* SearchTags giving up at the first tag that is present and does not parse
RECURSIVE SearchTags_NoFallThrough(_, _)
SearchTags_NoFallThrough(exif, i) ==
    IF i > Len(TagOrder) THEN None
    ELSE IF exif[TagOrder[i]] # None THEN TryTag(exif, TagOrder[i])
    ELSE SearchTags_NoFallThrough(exif, i + 1)

\* the loop over the candidate tags from position i on, leaving at the first success
RECURSIVE SearchTags(_, _)
SearchTags(exif, i) ==
    IF i > Len(TagOrder) THEN None
    ELSE IF TryTag(exif, TagOrder[i]) # None THEN TryTag(exif, TagOrder[i])
    ELSE SearchTags(exif, i + 1)

\* sed -r 's/(-|:)/ /g'
SedDelims(s) == [i \in DOMAIN s |-> IF s[i] \in {"-", ":"} THEN " " ELSE s[i]]

\* the standard output of FETCH_VIDEO_DATETIME_CMD: one line for every
\* creation_time entry of the ffmetadata
RECURSIVE FetchVideoOutput(_)
FetchVideoOutput(lines) ==
    IF lines = <<>> THEN <<>>
    ELSE SedDelims(Head(lines)) \o <<"\n">> \o FetchVideoOutput(Tail(lines))

\* str.strip()
RECURSIVE LStrip(_)
LStrip(s) == IF s # <<>> /\ s[1] \in {" ", "\n"} THEN LStrip(Tail(s)) ELSE s
RECURSIVE RStrip(_)
RStrip(s) ==
    IF s # <<>> /\ s[Len(s)] \in {" ", "\n"} THEN RStrip(SubSeq(s, 1, Len(s) - 1)) ELSE s
Strip(s) == RStrip(LStrip(s))

\* the video branch: sh() returns None when the command fails and None.strip()
\* raises; every exception of the branch is passed over
VideoTimeStruct(video) ==
    IF video = None THEN None
    ELSE StrPTime(Strip(FetchVideoOutput(TheValue(video))), VideoSeps)

\* time_struct at line 269
TimeStruct(name, meta) ==
    IF Ext(name) \in SUPPORTED_IMAGE_EXTENSIONS
    THEN (IF ExifEmpty(meta.exif) THEN None ELSE SearchTags(meta.exif, 1))
    ELSE IF Ext(name) \in SUPPORTED_VIDEO_EXTENSIONS
    THEN VideoTimeStruct(meta.video)
    ELSE None

\* None, or Some(<<orig_datetime, shifted_datetime>>)
get_media_file_date_time(name, meta, shift) ==
    LET time_struct == TimeStruct(name, meta)
    IN IF time_struct = None THEN None
       ELSE LET orig_datetime == FromTimestamp(MkTime(TheValue(time_struct)))
            IN Some(<<orig_datetime, AddDelta(orig_datetime, shift)>>)


-----------------------------------------------------------------------------
(* The command line *)

ACTION_COPY == "copy"
ACTION_MOVE == "move"

\* the long options getopt is given
FlagOptions == {"--move", "--help", "--dry-run", "--quiet", "--dnrcd", "--debug"}
DayShiftOptions == {"--year-shift", "--month-shift", "--day-shift"}
ClockShiftOptions == {"--hour-shift", "--minute-shift", "--second-shift"}
LongOptions == FlagOptions \cup {"--chmod"} \cup DayShiftOptions \cup ClockShiftOptions

\* int(string, base) for an optional sign and digits of the base: Some(n), or
\* None when int raises ValueError
RECURSIVE DigitsValue(_, _)
DigitsValue(s, base) ==
    IF s = <<>> THEN 0
    ELSE (base * DigitsValue(SubSeq(s, 1, Len(s) - 1), base)) + DigitVal(s[Len(s)])
IntOf(string, base) ==
    LET signed == string # <<>> /\ string[1] \in {"-"}
        body == IF signed THEN Tail(string) ELSE string
    IN IF body = <<>> \/ \E i \in DOMAIN body : ~IsDigit(body[i]) \/ DigitVal(body[i]) >= base
       THEN None
       ELSE Some(IF signed THEN 0 - DigitsValue(body, base) ELSE DigitsValue(body, base))

\* str_to_shift turning every string into a number
str_to_shift_Lenient(string) ==
    IF IntOf(string, 10) = None THEN Some(0) ELSE IntOf(string, 10)

\* str_to_shift: Some(int(string)), or None when it halts the script
str_to_shift(string) == IntOf(string, 10)

\* the time_shift dictionary after a shift option o with the number n, with
\* the hour offset accumulated as the day offset is
ShiftAfter_HoursAdd(ts, o, n) ==
    IF o = "--year-shift" THEN [ts EXCEPT !.days = @ + (n * 365)]
    ELSE IF o = "--month-shift" THEN [ts EXCEPT !.days = @ + (n * 30)]
    ELSE IF o = "--day-shift" THEN [ts EXCEPT !.days = @ + n]
    ELSE IF o = "--hour-shift" THEN [ts EXCEPT !.hours = @ + n]
    ELSE IF o = "--minute-shift" THEN [ts EXCEPT !.minutes = n]
    ELSE [ts EXCEPT !.seconds = n]

\* the time_shift dictionary after a shift option o with the number n
ShiftAfter(ts, o, n) ==
    IF o = "--year-shift" THEN [ts EXCEPT !.days = @ + (n * 365)]
    ELSE IF o = "--month-shift" THEN [ts EXCEPT !.days = @ + (n * 30)]
    ELSE IF o = "--day-shift" THEN [ts EXCEPT !.days = @ + n]
    ELSE IF o = "--hour-shift" THEN [ts EXCEPT !.hours = n]
    ELSE IF o = "--minute-shift" THEN [ts EXCEPT !.minutes = n]
    ELSE [ts EXCEPT !.seconds = n]

\* check_dir: TRUE when it returns, FALSE when it halts the script
check_dir(kind) == kind # "missing" /\ kind = "dir"

-----------------------------------------------------------------------------
(* The file system *)

\* An entry of the source tree is [path, type, meta]: path is the sequence of
\* names from the source root (<<>> is the root itself), type is "file", "dir"
\* or "link" (a symbolic link to nothing), meta is what the metadata readers
\* find in a file.
Parent(path) == SubSeq(path, 1, Len(path) - 1)
BaseName(path) == path[Len(path)]
Children(tree, path) == {e \in tree : e.path # <<>> /\ Parent(e.path) = path}
EntryAt(tree, path) == CHOOSE e \in tree : e.path = path

\* listdir without the is_media filter
listdir_AllFiles(tree, path) ==
    LET here == {[name |-> BaseName(e.path), type |-> e.type] :
                    e \in {c \in Children(tree, path) : c.type # "link"}}
    IN [files |-> Sorted({e.name : e \in {x \in here : x.type # "dir"}}),
        dirs |-> Sorted({e.name : e \in {x \in here : x.type = "dir"}})]

\* listdir: the sorted media file names and the sorted subdirectory names
listdir(tree, path) ==
    LET here == {[name |-> BaseName(e.path), type |-> e.type] :
                    e \in {c \in Children(tree, path) : c.type # "link"}}
    IN [files |-> Sorted({e.name : e \in {x \in here : x.type # "dir" /\ is_media(x)}}),
        dirs |-> Sorted({e.name : e \in {x \in here : x.type = "dir"}})]

\* the activation record of process_dir(path) after line 151
Frame(tree, path) ==
    LET listed == listdir(tree, path)
    IN [path |-> path, files |-> listed.files, dirs |-> listed.dirs,
        items_count |-> Len(listed.files) + Len(listed.dirs),
        fi |-> 1, di |-> 1]

\* mkdirP(path): the directories it has to create, outermost first
RECURSIVE MissingDirs(_, _)
MissingDirs(dirs, path) ==
    IF path = <<>> \/ path \in dirs THEN <<>>
    ELSE Append(MissingDirs(dirs, Parent(path)), path)

\* the destination files after a file was written at path
WriteFile(files, path, from, mode) ==
    {f \in files : f.path # path} \cup {[path |-> path, from |-> from, mode |-> mode]}

\* the source tree after a file was moved, whatever the call was
SourceAfter_AlwaysMoved(call, tree, e) == tree \ {e}

\* the source tree after shutil.copy (line 168) or shutil.move (line 179) of e
SourceAfter(call, tree, e) == IF call = ACTION_MOVE THEN tree \ {e} ELSE tree

\* the condition of line 160 without the test of dry_run
MakesDirs_Always == TRUE

\* line 160: the destination directories are made
MakesDirs == ~dry_run

\* line 162: the file is copied, not moved
IsCopy == action = ACTION_COPY

\* the condition of lines 186-188 without the test of items_count
Cleared_NoCount(tree, f) ==
    /\ remove_cleared_dirs
    /\ Children(tree, f.path) = {}

\* lines 186-188: the directory is to be removed
Cleared(tree, f) ==
    /\ remove_cleared_dirs
    /\ f.items_count > 0
    /\ Children(tree, f.path) = {}

-----------------------------------------------------------------------------
(* Input values *)

DT(y, mo, d, h, mi, sec) ==
    [year |-> y, month |-> mo, day |-> d, hour |-> h, minute |-> mi, second |-> sec]

NoShift == [days |-> 0, hours |-> 0, minutes |-> 0, seconds |-> 0]

\* the default of files_mode, 0644
DefaultFilesMode == 420

Name_img == <<"I", "m", "g", ".", "J", "P", "G">>
Name_clip == <<"c", ".", "m", "o", "v">>
Name_notes == <<"n", ".", "t", "x", "t">>

\* how many time prefixes the file names given to get_dst_media_path carry
MaxPrefixes == 2

PathTimes == {DT(2021, 6, 15, 9, 5, 30), DT(2021, 6, 15, 14, 30, 0),
              DT(2021, 6, 15, 14, 30, 59), DT(2020, 12, 31, 23, 59, 59)}
PathPrefixes == {FmtHM_(t) : t \in PathTimes} \cup {FmtHMS_(t) : t \in PathTimes}
RECURSIVE PrefixedNames(_)
PrefixedNames(n) ==
    IF n = 0 THEN {Name_img, Name_clip}
    ELSE PrefixedNames(n - 1) \cup
         {p \o b : p \in PathPrefixes, b \in PrefixedNames(n - 1)}

\* the values a tag of the EXIF dictionary takes
TagTexts == {FmtExif(DT(2021, 6, 15, 9, 5, 30)),
             FmtExif(DT(2019, 2, 28, 23, 59, 59)),
             FmtExif(DT(0, 0, 0, 0, 0, 0)),
             FmtYMD(DT(2021, 6, 15, 9, 5, 30)) \o <<" ">> \o Drop(FmtExif(DT(2021, 6, 15, 9, 5, 30)), 11)}
TagValues == {None} \cup {Some(t) : t \in TagTexts}
ExifInputs == [ExifKeys -> TagValues]
NoExif == [k \in ExifKeys |-> None]

\* the creation_time entries of a video: the command failed, no entry, one
\* entry in either of the two forms ffmpeg writes, two entries
VideoInputs ==
    {None, Some(<<>>),
     Some(<<FmtYMD(DT(2021, 6, 15, 9, 5, 30)) \o <<" ">> \o Drop(FmtExif(DT(2021, 6, 15, 14, 30, 0)), 11)>>),
     Some(<<FmtYMD(DT(2021, 6, 15, 9, 5, 30)) \o <<"T">> \o Drop(FmtExif(DT(2021, 6, 15, 14, 30, 0)), 11)>>),
     Some(<<FmtYMD(DT(2021, 6, 15, 9, 5, 30)) \o <<" ">> \o Drop(FmtExif(DT(2021, 6, 15, 14, 30, 0)), 11),
            FmtYMD(DT(2021, 6, 15, 9, 5, 30)) \o <<" ">> \o Drop(FmtExif(DT(2021, 6, 15, 14, 30, 0)), 11)>>)}

MetaShifts == {NoShift,
               [days |-> 367, hours |-> 5, minutes |-> 0, seconds |-> 0],
               [days |-> -1, hours |-> 0, minutes |-> 0, seconds |-> -31]}

\* how many options a command line of the option runs has
MaxOpts == 2
\* how many entries a source tree of the walk runs has besides its root
MaxEntries == 5
\* how many system calls fail in one run
MaxFaults == 2

Opt(o, v) == [o |-> o, v |-> v]
OptionInputs ==
    {Opt("--move", <<>>), Opt("--dry-run", <<>>), Opt("--dnrcd", <<>>),
     Opt("--quiet", <<>>), Opt("--debug", <<>>), Opt("--help", <<>>),
     Opt("--bogus", <<>>),
     Opt("--chmod", <<"6", "0", "0">>), Opt("--chmod", <<"8", "9">>),
     Opt("--year-shift", <<"1">>), Opt("--month-shift", <<"-", "1">>),
     Opt("--day-shift", <<"2">>), Opt("--day-shift", <<"x">>),
     Opt("--hour-shift", <<"1">>), Opt("--hour-shift", <<"5">>),
     Opt("--minute-shift", <<"3">>), Opt("--second-shift", <<"-", "4">>)}
CommandLines == UNION {[1..n -> OptionInputs] : n \in 0..MaxOpts}

\* positional arguments, each by what is found at the path
ArgInputs == {<<>>, <<"dir">>, <<"dir", "dir">>, <<"missing", "dir">>, <<"file", "dir">>,
              <<"dir", "missing">>, <<"dir", "file">>, <<"dir", "dir", "dir">>}

\* the command lines of the walk runs: every combination of --move, --dry-run,
\* --dnrcd and a shift, and three that end the script
RECURSIVE Pick(_, _)
Pick(seq, keep) ==
    IF seq = <<>> THEN <<>>
    ELSE (IF keep[Len(seq)] THEN Pick(SubSeq(seq, 1, Len(seq) - 1), keep) \o <<seq[Len(seq)]>>
          ELSE Pick(SubSeq(seq, 1, Len(seq) - 1), keep))
WalkOptions == <<Opt("--move", <<>>), Opt("--dry-run", <<>>), Opt("--dnrcd", <<>>),
                 Opt("--day-shift", <<"2">>), Opt("--hour-shift", <<"1", "0">>)>>
WalkCommandLines ==
    {Pick(SubSeq(WalkOptions, 1, 3), keep) : keep \in [1..3 -> BOOLEAN]}
    \cup {Pick(SubSeq(WalkOptions, 1, 3), keep) \o SubSeq(WalkOptions, 4, 5) :
             keep \in [1..3 -> BOOLEAN]}
    \cup {<<Opt("--help", <<>>)>>, <<Opt("--chmod", <<"6", "0", "0">>)>>}

File(path, exif, video) ==
    [path |-> path, type |-> "file", meta |-> [exif |-> exif, video |-> video]]
Dir(path) == [path |-> path, type |-> "dir", meta |-> [exif |-> NoExif, video |-> None]]
Link(path) == [path |-> path, type |-> "link", meta |-> [exif |-> NoExif, video |-> None]]

Name_sub == <<"s", "u", "b">>
Name_deep == <<"d", "e", "e", "p">>
Name_old == <<"o", "l", "d">>
Name_lower == <<"i", "m", "g", ".", "j", "p", "g">>
Name_legacy == <<"1", "4", ":", "3", "0", "_", "p", ".", "t", "i", "f">>
Name_bare == <<"x", ".", "p", "n", "g">>
Name_readme == <<"R", "E", "A", "D", "M", "E">>
Name_link == <<"l", ".", "j", "p", "g">>

Exif_0905 == [NoExif EXCEPT !["Image DateTime"] = Some(FmtExif(DT(2021, 6, 15, 9, 5, 30)))]
Exif_Orig0905 == [NoExif EXCEPT !["Image DateTime"] = Some(FmtExif(DT(0, 0, 0, 0, 0, 0))),
                                !["EXIF DateTimeOriginal"] = Some(FmtExif(DT(2021, 6, 15, 9, 5, 30)))]
Exif_1430 == [NoExif EXCEPT !["EXIF DateTimeDigitized"] = Some(FmtExif(DT(2021, 6, 15, 14, 30, 59)))]
Video_1430 == Some(<<FmtYMD(DT(2021, 6, 15, 9, 5, 30)) \o <<" ">> \o
                     Drop(FmtExif(DT(2021, 6, 15, 14, 30, 0)), 11)>>)

Root == Dir(<<>>)
\* what a source tree is made of; Img.JPG and sub/img.jpg resolve to one
\* destination path
TreeEntries ==
    {File(<<Name_img>>, Exif_0905, None),
     Dir(<<Name_sub>>),
     File(<<Name_sub, Name_lower>>, Exif_Orig0905, None),
     File(<<Name_sub, Name_clip>>, NoExif, Video_1430),
     File(<<Name_sub, Name_notes>>, NoExif, None),
     Dir(<<Name_sub, Name_deep>>),
     File(<<Name_sub, Name_deep, Name_legacy>>, Exif_1430, None),
     File(<<Name_sub, Name_deep, Name_bare>>, NoExif, None),
     Dir(<<Name_old>>),
     Link(<<Name_old, Name_link>>),
     File(<<Name_old, Name_readme>>, NoExif, None)}

\* every entry is in a directory of the tree
IsTree(t) == \A e \in t : e.path = <<>> \/ \E d \in t : d.type = "dir" /\ d.path = Parent(e.path)
SourceTrees ==
    {t \cup {Root} : t \in {u \in SUBSET TreeEntries :
                               Cardinality(u) <= MaxEntries /\ IsTree(u \cup {Root})}}

\* the source tree of the option runs
OptionRunTree ==
    {Root, File(<<Name_bare>>, NoExif, None), Dir(<<Name_sub>>),
     File(<<Name_sub, Name_lower>>, Exif_Orig0905, None)}

-----------------------------------------------------------------------------
(* The entry point *)

IdlePure == p_in = None /\ p_out = <<>> /\ m_in = None /\ m_out = None

\* the state of the module when the entry point starts
Globals ==
    /\ pc = "start" /\ oi = 1
    /\ action = ACTION_COPY /\ dry_run = FALSE /\ remove_cleared_dirs = TRUE
    /\ files_mode = DefaultFilesMode /\ time_shift = NoShift
    /\ dst_dirs = {} /\ dst_files = {} /\ stack = <<>> /\ faults = 0 /\ trace = {}

Init ==
    /\ Globals /\ IdlePure
    /\ opts \in CommandLines
    /\ args \in ArgInputs
    /\ src = OptionRunTree /\ src0 = src

InitWalk ==
    /\ Globals /\ IdlePure
    /\ opts \in WalkCommandLines
    /\ args = <<"dir", "dir">>
    /\ src \in SourceTrees /\ src0 = src

\* lines 401-411: getopt.getopt, then usage() without positional arguments
Getopt ==
    /\ pc = "start"
    /\ pc' = IF \E i \in DOMAIN opts : opts[i].o \notin LongOptions THEN "exit1"
             ELSE IF Len(args) = 0 THEN "exit1"
             ELSE "options"
    /\ UNCHANGED <<opts, args, oi, cfgVars, src0, fsVars, pureVars>>

AtOption(names) == pc = "options" /\ oi <= Len(opts) /\ opts[oi].o \in names

\* lines 413-414
OptHelp ==
    /\ AtOption({"--help"})
    /\ pc' = "exit1"
    /\ UNCHANGED <<opts, args, oi, cfgVars, src0, fsVars, pureVars>>

\* lines 415-424
OptFlag ==
    /\ AtOption({"--move", "--quiet", "--dry-run", "--debug", "--dnrcd"})
    /\ action' = IF opts[oi].o = "--move" THEN ACTION_MOVE ELSE action
    /\ dry_run' = IF opts[oi].o = "--dry-run" THEN TRUE ELSE dry_run
    /\ remove_cleared_dirs' = IF opts[oi].o = "--dnrcd" THEN FALSE ELSE remove_cleared_dirs
    /\ oi' = oi + 1
    /\ UNCHANGED <<pc, opts, args, files_mode, time_shift, src0, fsVars, pureVars>>

\* lines 425-426: int(v, 8); a ValueError is not caught
OptChmod ==
    /\ AtOption({"--chmod"})
    /\ IF IntOf(opts[oi].v, 8) = None
       THEN pc' = "crashed" /\ UNCHANGED <<oi, files_mode>>
       ELSE pc' = pc /\ oi' = oi + 1 /\ files_mode' = TheValue(IntOf(opts[oi].v, 8))
    /\ UNCHANGED <<opts, args, action, dry_run, remove_cleared_dirs, time_shift,
                   src0, fsVars, pureVars>>

\* lines 427-438
OptShift ==
    /\ AtOption(DayShiftOptions \cup ClockShiftOptions)
    /\ IF str_to_shift(opts[oi].v) = None
       THEN pc' = "exit1" /\ UNCHANGED <<oi, time_shift>>
       ELSE /\ pc' = pc /\ oi' = oi + 1
            /\ time_shift' = ShiftAfter(time_shift, opts[oi].o, TheValue(str_to_shift(opts[oi].v)))
    /\ UNCHANGED <<opts, args, action, dry_run, remove_cleared_dirs, files_mode,
                   src0, fsVars, pureVars>>

\* lines 439-446: the number of arguments, check_dir twice, and the call of
\* process_dir up to line 151
CheckArgs ==
    /\ pc = "options" /\ oi > Len(opts)
    /\ IF Len(args) # 2 \/ ~check_dir(args[1]) \/ ~check_dir(args[2])
       THEN pc' = "exit1" /\ UNCHANGED stack
       ELSE pc' = "walk" /\ stack' = <<Frame(src, <<>>)>>
    /\ UNCHANGED <<opts, args, oi, cfgVars, src, src0, dst_dirs, dst_files, faults, trace,
                   pureVars>>

-----------------------------------------------------------------------------
(* process_dir *)

Top == stack[Len(stack)]
AtFile == pc = "walk" /\ stack # <<>> /\ Top.fi <= Len(Top.files)
\* abs_i and the entry it names
CurPath == Append(Top.path, Top.files[Top.fi])
Cur == EntryAt(src, CurPath)
\* line 155
Dates == get_media_file_date_time(BaseName(CurPath), Cur.meta, time_shift)
\* lines 158-159
DstMediaPath(dates) ==
    get_dst_media_path(BaseName(CurPath), TheValue(dates)[1], TheValue(dates)[2])

Did(op, path) == [op |-> op, path |-> path]
NextFile == [stack EXCEPT ![Len(stack)].fi = @ + 1]
MayFail == faults < MaxFaults

\* lines 249-250: open() or EXIF.process_file raises; nothing catches it
FileReadRaises ==
    /\ AtFile /\ MayFail
    /\ Ext(BaseName(CurPath)) \in SUPPORTED_IMAGE_EXTENSIONS
    /\ pc' = "crashed"
    /\ faults' = faults + 1
    /\ trace' = trace \cup {Did("resolve", CurPath)}
    /\ UNCHANGED <<opts, args, oi, cfgVars, src, src0, dst_dirs, dst_files, stack, pureVars>>

\* lines 155-156 with dates None
FileSkipped ==
    /\ AtFile /\ Dates = None
    /\ stack' = NextFile
    /\ trace' = trace \cup {Did("resolve", CurPath)}
    /\ UNCHANGED <<pc, opts, args, oi, cfgVars, src, src0, dst_dirs, dst_files, faults, pureVars>>

\* line 161: os.mkdir raises in mkdirP after n directories were made; nothing
\* catches it
FileMkdirRaises ==
    /\ AtFile /\ MakesDirs /\ MayFail
    /\ LET dates == Dates
       IN /\ dates # None
          /\ LET missing == MissingDirs(dst_dirs, SubSeq(DstMediaPath(dates), 1, 2))
             IN \E n \in 0..(Len(missing) - 1) :
                   /\ dst_dirs' = dst_dirs \cup {missing[k] : k \in 1..n}
                   /\ trace' = trace \cup {Did("resolve", CurPath)}
                                     \cup {Did("mkdir", missing[k]) : k \in 1..(n + 1)}
    /\ pc' = "crashed"
    /\ faults' = faults + 1
    /\ UNCHANGED <<opts, args, oi, cfgVars, src, src0, dst_files, stack, pureVars>>

\* line 161 when mkdirP returns: the directories it made
MadeDirs(dst_dir) ==
    IF MakesDirs THEN Range(MissingDirs(dst_dirs, dst_dir)) ELSE {}

\* lines 160-165 and 173-176 with dry_run on: the file is only reported
FileReported ==
    /\ AtFile /\ dry_run /\ (IsCopy \/ action = ACTION_MOVE)
    /\ LET dates == Dates
       IN /\ dates # None
          /\ LET made == MadeDirs(SubSeq(DstMediaPath(dates), 1, 2))
             IN /\ dst_dirs' = dst_dirs \cup made
                /\ trace' = trace \cup {Did("mkdir", d) : d \in made}
                                  \cup {Did("resolve", CurPath)}
    /\ stack' = NextFile
    /\ UNCHANGED <<pc, opts, args, oi, cfgVars, src, src0, dst_files, faults, pureVars>>

\* lines 162-172 with dry_run off: shutil.copy and os.chmod, either of which
\* may raise; the exception is caught
FileCopy ==
    /\ AtFile /\ IsCopy /\ ~dry_run
    /\ LET dates == Dates
       IN /\ dates # None
          /\ LET dst_media_path == DstMediaPath(dates)
                 made == MadeDirs(SubSeq(dst_media_path, 1, 2))
                 there == SubSeq(dst_media_path, 1, 2) \in dst_dirs \cup made
             IN /\ dst_dirs' = dst_dirs \cup made
                /\ \E outcome \in IF ~there THEN {"copy raises"}
                                  ELSE IF MayFail THEN {"ok", "copy raises", "chmod raises"}
                                  ELSE {"ok"} :
                      /\ dst_files' = IF outcome = "copy raises" THEN dst_files
                                      ELSE WriteFile(dst_files, dst_media_path, CurPath,
                                                     IF outcome = "ok" THEN Some(files_mode)
                                                     ELSE None)
                      /\ trace' = trace \cup {Did("mkdir", d) : d \in made}
                                        \cup {Did("resolve", CurPath), Did("copy", CurPath)}
                                        \cup (IF outcome = "copy raises" THEN {}
                                              ELSE {Did("chmod", CurPath)})
                      /\ faults' = IF outcome = "ok" THEN faults ELSE faults + 1
                      /\ src' = IF outcome = "copy raises" THEN src
                                ELSE SourceAfter(ACTION_COPY, src, Cur)
    /\ stack' = NextFile
    /\ UNCHANGED <<pc, opts, args, oi, cfgVars, src0, pureVars>>

\* lines 173-183 with dry_run off: shutil.move and os.chmod; shutil.move may
\* raise before anything is done or after the copy, when the source cannot be
\* unlinked; the exception is caught
FileMove ==
    /\ AtFile /\ ~IsCopy /\ action = ACTION_MOVE /\ ~dry_run
    /\ LET dates == Dates
       IN /\ dates # None
          /\ LET dst_media_path == DstMediaPath(dates)
                 made == MadeDirs(SubSeq(dst_media_path, 1, 2))
                 there == SubSeq(dst_media_path, 1, 2) \in dst_dirs \cup made
             IN /\ dst_dirs' = dst_dirs \cup made
                /\ \E outcome \in IF ~there THEN {"move raises"}
                                  ELSE IF MayFail
                                  THEN {"ok", "move raises", "unlink raises", "chmod raises"}
                                  ELSE {"ok"} :
                      /\ dst_files' = IF outcome = "move raises" THEN dst_files
                                      ELSE WriteFile(dst_files, dst_media_path, CurPath,
                                                     IF outcome = "ok" THEN Some(files_mode)
                                                     ELSE None)
                      /\ src' = IF outcome \in {"ok", "chmod raises"}
                                THEN SourceAfter(ACTION_MOVE, src, Cur) ELSE src
                      /\ trace' = trace \cup {Did("mkdir", d) : d \in made}
                                        \cup {Did("resolve", CurPath), Did("move", CurPath)}
                                        \cup (IF outcome \in {"ok", "chmod raises"}
                                              THEN {Did("chmod", CurPath)} ELSE {})
                      /\ faults' = IF outcome = "ok" THEN faults ELSE faults + 1
    /\ stack' = NextFile
    /\ UNCHANGED <<pc, opts, args, oi, cfgVars, src0, pureVars>>

AtDirs == pc = "walk" /\ stack # <<>> /\ Top.fi > Len(Top.files)

\* lines 184-185 and 149-151 of the call
Descend ==
    /\ AtDirs /\ Top.di <= Len(Top.dirs)
    /\ stack' = Append(stack, Frame(src, Append(Top.path, Top.dirs[Top.di])))
    /\ UNCHANGED <<pc, opts, args, oi, cfgVars, src, src0, dst_dirs, dst_files, faults, trace,
                   pureVars>>

\* the return of process_dir to its caller
Return == IF Len(stack) = 1 THEN <<>>
          ELSE [SubSeq(stack, 1, Len(stack) - 1) EXCEPT ![Len(stack) - 1].di = @ + 1]
AtEnd == AtDirs /\ Top.di > Len(Top.dirs)

\* lines 186-193: os.rmdir, which may raise; the exception is caught
RemoveDir ==
    /\ AtEnd /\ Cleared(src, Top)
    /\ \E outcome \in {"ok"} \cup (IF MayFail THEN {"rmdir raises"} ELSE {}) :
          /\ src' = IF outcome = "ok" THEN src \ {EntryAt(src, Top.path)} ELSE src
          /\ faults' = IF outcome = "ok" THEN faults ELSE faults + 1
          /\ trace' = trace \cup {Did("rmdir", Top.path)}
                            \cup (IF outcome = "ok" THEN {} ELSE {Did("rmdir raised", Top.path)})
    /\ stack' = Return
    /\ pc' = IF Len(stack) = 1 THEN "done" ELSE pc
    /\ UNCHANGED <<opts, args, oi, cfgVars, src0, dst_dirs, dst_files, pureVars>>

\* lines 194-195
LeaveDir ==
    /\ AtEnd /\ ~Cleared(src, Top)
    /\ stack' = Return
    /\ pc' = IF Len(stack) = 1 THEN "done" ELSE pc
    /\ UNCHANGED <<opts, args, oi, cfgVars, src, src0, dst_dirs, dst_files, faults, trace,
                   pureVars>>

Next ==
    \/ Getopt \/ OptHelp \/ OptFlag \/ OptChmod \/ OptShift \/ CheckArgs
    \/ FileReadRaises \/ FileSkipped \/ FileReported \/ FileMkdirRaises
    \/ FileCopy \/ FileMove
    \/ Descend \/ RemoveDir \/ LeaveDir

Spec == Init /\ [][Next]_vars
SpecWalk == InitWalk /\ [][Next]_vars

-----------------------------------------------------------------------------
(* Runs of the two resolvers on their own *)

IdleMain ==
    /\ opts = <<>> /\ args = <<>> /\ oi = 1
    /\ action = "copy" /\ dry_run = FALSE /\ remove_cleared_dirs = TRUE
    /\ files_mode = DefaultFilesMode
IdleWalk ==
    /\ src = {} /\ src0 = {} /\ dst_dirs = {} /\ dst_files = {}
    /\ stack = <<>> /\ faults = 0 /\ trace = {}

InitPath ==
    /\ pc = "path"
    /\ IdleMain /\ IdleWalk
    /\ time_shift = NoShift
    /\ p_in \in [src_filename : PrefixedNames(MaxPrefixes),
                 orig_datetime : PathTimes, shifted_datetime : PathTimes]
    /\ p_out = <<>>
    /\ m_in = None /\ m_out = None

\* get_dst_media_path on the inputs
ResolvePath ==
    /\ pc = "path" /\ p_out = <<>>
    /\ p_out' = <<get_dst_media_path(p_in.src_filename, p_in.orig_datetime,
                                     p_in.shifted_datetime)>>
    /\ UNCHANGED <<pc, opts, args, oi, cfgVars, src0, fsVars, p_in, m_in, m_out>>

\* get_dst_media_path on the file name it produced
ResolvePathAgain ==
    /\ pc = "path" /\ Len(p_out) = 1
    /\ p_out' = Append(p_out, get_dst_media_path(p_out[1][3], p_in.orig_datetime,
                                                 p_in.shifted_datetime))
    /\ UNCHANGED <<pc, opts, args, oi, cfgVars, src0, fsVars, p_in, m_in, m_out>>

NextPath == ResolvePath \/ ResolvePathAgain
SpecPath == InitPath /\ [][NextPath]_vars

InitMeta ==
    /\ pc = "meta"
    /\ IdleMain /\ IdleWalk
    /\ time_shift \in MetaShifts
    /\ p_in = None /\ p_out = <<>>
    /\ m_in \in [name : {Name_img}, exif : ExifInputs, video : {None}]
            \cup [name : {Name_clip}, exif : {NoExif}, video : VideoInputs]
            \cup [name : {Name_notes}, exif : {NoExif}, video : {None}]
    /\ m_out = None

\* get_media_file_date_time on the input
ResolveMeta ==
    /\ pc = "meta"
    /\ pc' = "meta_done"
    /\ m_out' = get_media_file_date_time(m_in.name, m_in, time_shift)
    /\ UNCHANGED <<opts, args, oi, cfgVars, src0, fsVars, p_in, p_out, m_in>>

NextMeta == ResolveMeta
SpecMeta == InitMeta /\ [][NextMeta]_vars


-----------------------------------------------------------------------------
(* Properties of get_dst_media_path, checked under SpecPath *)

\* C5: resolving the file name that get_dst_media_path produced, with the same
\* timestamps, gives the same path again; the produced name never starts
\* with the legacy prefix of the original time, so the strip cannot cut into
\* the time prefix.
C5_Idempotent ==
    /\ Len(p_out) >= 1 => ~StartsWith(p_out[1][3], FmtHM_(p_in.orig_datetime))
    /\ Len(p_out) = 2 => p_out[2] = p_out[1]

\* a name with the legacy prefix of a shifted file was resolved twice
C5_Witness ==
    /\ Len(p_out) = 2
    /\ StartsWith(Lower(p_in.src_filename), FmtHM_(p_in.orig_datetime))
    /\ FmtHMS_(p_in.shifted_datetime) # FmtHMS_(p_in.orig_datetime)
    /\ p_out[2][3] = FmtHMS_(p_in.shifted_datetime) \o Drop(Lower(p_in.src_filename), 6)

\* C9 as stated: a name starting with the original HH:MM_ loses these six
\* characters and the result is the effective HH:MM:SS_ followed by the
\* remainder.
C9_AsStated ==
    (Len(p_out) >= 1 /\ StartsWith(Lower(p_in.src_filename), FmtHM_(p_in.orig_datetime)))
        => p_out[1][3] = FmtHMS_(p_in.shifted_datetime) \o Drop(Lower(p_in.src_filename), 6)

\* C9, amended: the strip is decided by the original timestamp and removes
\* exactly six characters; the result is the effective HH:MM:SS_ followed by
\* the remainder, except that a remainder which already starts with the
\* effective HH:MM:SS_ is the result as it is.  A name that does not start with
\* the original HH:MM_ keeps all its characters.
C9_LegacyStrip ==
    Len(p_out) >= 1 =>
        LET lowered == Lower(p_in.src_filename)
            pfx == FmtHMS_(p_in.shifted_datetime)
            out == p_out[1][3]
        IN IF StartsWith(lowered, FmtHM_(p_in.orig_datetime))
           THEN IF StartsWith(Drop(lowered, 6), pfx)
                THEN out = Drop(lowered, 6)
                ELSE out = pfx \o Drop(lowered, 6)
           ELSE out \in {lowered, pfx \o lowered}

\* a legacy prefix of the original time was stripped although the name starts
\* with the HH:MM_ of another, shifted time as well after the strip
C9_Witness ==
    /\ Len(p_out) >= 1
    /\ StartsWith(Lower(p_in.src_filename), FmtHM_(p_in.orig_datetime))
    /\ FmtHM_(p_in.shifted_datetime) # FmtHM_(p_in.orig_datetime)
    /\ p_out[1][3] = FmtHMS_(p_in.shifted_datetime) \o Drop(Lower(p_in.src_filename), 6)

-----------------------------------------------------------------------------
(* Properties of get_media_file_date_time, checked under SpecMeta *)

TagValid(k) == m_in.exif[k] # None /\ StrPTime(TheValue(m_in.exif[k]), ExifSeps) # None
TagTime(k) == TheValue(StrPTime(TheValue(m_in.exif[k]), ExifSeps))
ResolvedOrig == TheValue(m_out)[1]

\* C7: for an image the original timestamp is the value of the first of Image
\* DateTime, EXIF DateTimeOriginal, EXIF DateTimeDigitized that is present and
\* parses; a missing or unparsable tag falls through to the next one; with
\* none the result is None.
C7_TagPriority ==
    (pc = "meta_done" /\ Ext(m_in.name) \in SUPPORTED_IMAGE_EXTENSIONS) =>
        /\ TagValid("Image DateTime") =>
              m_out # None /\ ResolvedOrig = TagTime("Image DateTime")
        /\ (~TagValid("Image DateTime") /\ TagValid("EXIF DateTimeOriginal")) =>
              m_out # None /\ ResolvedOrig = TagTime("EXIF DateTimeOriginal")
        /\ (~TagValid("Image DateTime") /\ ~TagValid("EXIF DateTimeOriginal")
                /\ TagValid("EXIF DateTimeDigitized")) =>
              m_out # None /\ ResolvedOrig = TagTime("EXIF DateTimeDigitized")
        /\ (\A k \in Range(TagOrder) : ~TagValid(k)) => m_out = None

\* Image DateTime is present and does not parse, EXIF DateTimeOriginal is
\* missing, and the time of EXIF DateTimeDigitized was resolved
C7_Witness ==
    /\ pc = "meta_done"
    /\ m_in.exif["Image DateTime"] # None /\ ~TagValid("Image DateTime")
    /\ m_in.exif["EXIF DateTimeOriginal"] = None
    /\ TagValid("EXIF DateTimeDigitized")
    /\ m_out # None /\ ResolvedOrig = TagTime("EXIF DateTimeDigitized")


-----------------------------------------------------------------------------
(* Properties of the entry point, checked under Spec *)

IsShiftOption(x) ==
    x.o \in {"--year-shift", "--month-shift", "--day-shift",
             "--hour-shift", "--minute-shift", "--second-shift"}
Parsed == SubSeq(opts, 1, oi - 1)

\* the sum of the values of the options named o, each times k
RECURSIVE SumOf(_, _, _)
SumOf(seq, o, k) ==
    IF seq = <<>> THEN 0
    ELSE SumOf(Tail(seq), o, k)
         + (IF Head(seq).o = o THEN k * TheValue(IntOf(Head(seq).v, 10)) ELSE 0)

\* the value of the last option named o, 0 without one
LastOf(seq, o) ==
    LET at == {i \in DOMAIN seq : seq[i].o = o}
    IN IF at = {} THEN 0
       ELSE TheValue(IntOf(seq[CHOOSE i \in at : \A j \in at : j <= i].v, 10))

\* C6: after the options parsed so far, and so after all of them, the day
\* offset is the sum of 365 times every --year-shift, 30 times every
\* --month-shift and every --day-shift, and the hour, minute and second offsets
\* are the values of the last option of their kind, 0 without one.
C6_ShiftFold ==
    /\ time_shift.days = SumOf(Parsed, "--year-shift", 365)
                         + SumOf(Parsed, "--month-shift", 30)
                         + SumOf(Parsed, "--day-shift", 1)
    /\ time_shift.hours = LastOf(Parsed, "--hour-shift")
    /\ time_shift.minutes = LastOf(Parsed, "--minute-shift")
    /\ time_shift.seconds = LastOf(Parsed, "--second-shift")

\* --hour-shift=1 --hour-shift=5 was parsed to the end and the hour offset is 5
C6_Witness ==
    /\ pc = "walk"
    /\ Len(opts) = 2 /\ oi = 3
    /\ opts[1] = Opt("--hour-shift", <<"1">>) /\ opts[2] = Opt("--hour-shift", <<"5">>)
    /\ time_shift.hours = 5

\* the command line has an error of configuration: an unknown flag, a shift
\* that is no integer, a --chmod that is no octal number, not two positional
\* arguments, a source or destination that is no directory
ConfigError ==
    \/ \E i \in DOMAIN opts :
          \/ opts[i].o \notin {"--move", "--help", "--dry-run", "--quiet", "--dnrcd", "--debug",
                               "--chmod"} /\ ~IsShiftOption(opts[i])
          \/ IsShiftOption(opts[i]) /\ IntOf(opts[i].v, 10) = None
          \/ opts[i].o = "--chmod" /\ IntOf(opts[i].v, 8) = None
    \/ Len(args) # 2
    \/ \E i \in DOMAIN args : args[i] # "dir"

\* C3: a run with an error of configuration never enters process_dir: no file
\* is resolved, nothing is copied, moved, chmod-ed, made or removed, and when
\* the run has ended it has ended with a non-zero exit.
C3_ConfigErrorFatal ==
    ConfigError =>
        /\ pc \in {"start", "options", "exit1", "crashed"}
        /\ stack = <<>> /\ trace = {}
        /\ src = src0 /\ dst_dirs = {} /\ dst_files = {}
        /\ ~ENABLED Next => pc \in {"exit1", "crashed"}

\* --move was taken, then a malformed shift ended the script
C3_Witness ==
    /\ ConfigError
    /\ pc = "exit1" /\ Len(opts) = 2 /\ oi = 2
    /\ action = ACTION_MOVE
    /\ IsShiftOption(opts[2]) /\ IntOf(opts[2].v, 10) = None
    /\ args = <<"dir", "dir">>

-----------------------------------------------------------------------------
(* Properties of process_dir, checked under SpecWalk *)

SourceDirs == {e \in src0 : e.type = "dir"}
SourceFiles == {e \in src0 : e.type = "file"}
\* the extension after the last dot, lower-cased, is in neither table, or
\* there is no dot
Unsupported(name) ==
    \A i \in DOMAIN name :
        name[i] = "." => Lower(SubSeq(name, i + 1, Len(name))) \notin
            {Str_jpeg, Str_jpg, Str_png, Str_tif, Str_tiff,
             Str_avi, Str_mpg, Str_mp4, Str_3gp, Str_mov, Str_m4v}
\* what listdir counts in a directory as the run starts
Eligible(d) ==
    {c \in Children(src0, d.path) :
        c.type = "dir" \/ (c.type = "file" /\ ~Unsupported(BaseName(c.path)))}
Mutating == {"mkdir", "copy", "move", "chmod", "rmdir"}

\* C1: in a dry run nothing is copied, moved, chmod-ed, made or removed: the
\* source tree is the one the run started with and the destination is empty
\* as it was.
C1_DryRunFrame ==
    dry_run =>
        /\ src = src0 /\ dst_dirs = {} /\ dst_files = {}
        /\ \A t \in trace : t.op \notin Mutating

\* a dry run with --move, pruning and a shift ran to its end and resolved a
\* file of a subdirectory
C1_Witness ==
    /\ pc = "done" /\ dry_run /\ action = ACTION_MOVE /\ remove_cleared_dirs
    /\ time_shift # NoShift
    /\ Did("resolve", <<Name_sub, Name_clip>>) \in trace
    /\ Children(src0, <<Name_sub>>) = {File(<<Name_sub, Name_clip>>, NoExif, Video_1430)}

\* C2 as stated: a failure while one file is processed does not end the
\* batch: when a run that reached the files has ended, every media file of the
\* source tree was given to get_media_file_date_time.
C2_AsStated ==
    (pc \in {"done", "crashed"} /\ trace # {}) =>
        \A e \in SourceFiles :
            ~Unsupported(BaseName(e.path)) => Did("resolve", e.path) \in trace

\* C4 as stated: at the end of a run with pruning a subdirectory that held
\* only files, all of them relocated, is removed.
C4_AsStated ==
    (pc = "done" /\ remove_cleared_dirs) =>
        \A d \in SourceDirs :
            (/\ d.path # <<>>
             /\ Children(src0, d.path) # {}
             /\ \A c \in Children(src0, d.path) :
                   c.type = "file" /\ c \notin src /\ Did("move", c.path) \in trace)
                => d \notin src

\* C4, amended: at the end of a run with pruning a subdirectory that held only
\* files, all of them relocated, is removed unless os.rmdir raised for it; a
\* directory without an eligible entry is never removed and os.rmdir is never
\* called for it; a directory is removed only when nothing is left in it,
\* after all it held was moved or removed, and no directory is removed without
\* pruning.
C4_Pruning ==
    /\ (pc = "done" /\ remove_cleared_dirs) =>
          \A d \in SourceDirs :
              (/\ d.path # <<>>
               /\ Children(src0, d.path) # {}
               /\ \A c \in Children(src0, d.path) :
                     c.type = "file" /\ c \notin src /\ Did("move", c.path) \in trace)
                  => (d \notin src \/ Did("rmdir raised", d.path) \in trace)
    /\ \A d \in SourceDirs :
          /\ Eligible(d) = {} => (d \in src /\ Did("rmdir", d.path) \notin trace)
          /\ d \notin src =>
                /\ remove_cleared_dirs
                /\ Children(src, d.path) = {}
                /\ \A c \in Children(src0, d.path) :
                      /\ c \notin src
                      /\ c.type = "file" => Did("move", c.path) \in trace
                /\ \A i \in DOMAIN stack : stack[i].path # d.path

\* a subdirectory whose only file was moved is gone and a directory that was
\* empty from the start is still there
C4_Witness ==
    /\ pc = "done" /\ remove_cleared_dirs
    /\ Children(src0, <<Name_sub>>) = {File(<<Name_sub, Name_clip>>, NoExif, Video_1430)}
    /\ Dir(<<Name_sub>>) \notin src
    /\ Dir(<<Name_old>>) \in src /\ Children(src0, <<Name_old>>) = {}

\* C8: a file with an unsupported extension is never given to
\* get_media_file_date_time, never copied, moved or chmod-ed, and stays where
\* it is.
C8_UnsupportedStays ==
    \A e \in SourceFiles :
        Unsupported(BaseName(e.path)) =>
            /\ e \in src
            /\ \A t \in trace : t.path # e.path

\* n.txt is still in its directory after the video next to it was moved away
C8_Witness ==
    /\ pc = "done" /\ action = ACTION_MOVE
    /\ File(<<Name_sub, Name_notes>>, NoExif, None) \in src
    /\ File(<<Name_sub, Name_clip>>, NoExif, Video_1430) \in src0 \ src

\* C10: without --move every file and directory of the source tree stays.
C10_CopyKeepsSource ==
    action = ACTION_COPY => src = src0

\* a copying run with pruning ended after it copied the only file of a
\* subdirectory
C10_Witness ==
    /\ pc = "done" /\ action = ACTION_COPY /\ remove_cleared_dirs /\ ~dry_run
    /\ Children(src0, <<Name_sub>>) = {File(<<Name_sub, Name_clip>>, NoExif, Video_1430)}
    /\ \E f \in dst_files : f.from = <<Name_sub, Name_clip>>

=============================================================================
